---- MODULE Spec2Model ----
(***************************************************************************)
(* nchandy: the compression / quantization engine.                         *)
(*                                                                         *)
(*   nchandy/__init__.py  compress, _update_is_required_compress           *)
(*   nchandy/file.py      compress (file to file), ncks                     *)
(*   nchandy/_cmds_.py    compress_cmd (the loop over the files)            *)
(*                                                                         *)
(* Numbers are decimal fixed point: the integer n stands for n * 10^-Scale. *)
(* A cast between floating dtypes is exact on this grid, so what a float32  *)
(* cast loses in binary is outside the model.                               *)
(***************************************************************************)
EXTENDS Integers, Sequences, FiniteSets, TLC

VARIABLES
    heap,      \* the xarray Variable objects alive, by identity (index)
    arg,       \* the object the caller passes to compress
    snap,      \* the caller's object as it was when compress was called
    quantize,  \* the quantize argument
    dlevel,    \* the dlevel argument
    out,       \* what the first call returned (and its value then) or raised
    out2,      \* the same for compress(result, quantize, dlevel)
    pc,        \* the caller's position
    fs,        \* the file system: path -> file or Absent
    fop,       \* the file operation, or the batch, in progress
    fpc,       \* its position
    guard      \* the last answer of _update_is_required_compress

vars == <<heap, arg, snap, quantize, dlevel, out, out2, pc, fs, fop, fpc, guard>>

apiVars == <<heap, arg, snap, quantize, dlevel, out, out2, pc>>
fileVars == <<fs, fop, fpc, guard>>

---------------------------------------------------------------------------
\* Bounds of the model.

Scale == 2      \* decimal digits kept by the fixed-point values
MaxVal == 15    \* values range over -MaxVal .. MaxVal
MaxLen == 2     \* elements per variable in the exhaustive quantizer runs
MaxQ == 3       \* quantize ranges over -1 .. MaxQ

---------------------------------------------------------------------------
\* Python values: None, int, float (tagged, so that None never meets a number).

None == [t |-> "None", v |-> 0]
PyInt(n) == [t |-> "int", v |-> n]
PyFloat(n) == [t |-> "float", v |-> n]

\* dict helpers
EmptyDict == <<>>
Has(dct, k) == k \in DOMAIN dct
Update(dct, upd) ==
    [k \in (DOMAIN dct) \cup (DOMAIN upd) |->
        IF k \in DOMAIN upd THEN upd[k] ELSE dct[k]]
Without(dct, ks) == [k \in (DOMAIN dct) \ ks |-> dct[k]]

Abs(x) == IF x < 0 THEN -x ELSE x
Max2(a, b) == IF a >= b THEN a ELSE b

RECURSIVE Pow10(_)
Pow10(n) == IF n <= 0 THEN 1 ELSE 10 * Pow10(n - 1)

RECURSIVE SeqMax(_)
SeqMax(s) == IF Len(s) = 1 THEN s[1] ELSE Max2(s[1], SeqMax(Tail(s)))

---------------------------------------------------------------------------
\* nchandy/file.py:23
exclude_vars == {"TFLAG"}

pm_str == "precision_MAE"

IsFloat(dtype) == dtype \in {"float32", "float64"}

---------------------------------------------------------------------------
\* Argument checks of compress.

\* _check_ds: Dataset, DataArray or Variable.
check_ds(ref) ==
    IF ref.kind \in {"Dataset", "DataArray", "Variable"} THEN "ok" ELSE "TypeError"

\* _check_int: None or an int.
check_int(x) ==
    IF x # None /\ x.t # "int" THEN "TypeError" ELSE "ok"

\* _check_dlevel: None or an int in 0..9.
check_dlevel(x) ==
    IF check_int(x) # "ok" THEN "TypeError"
    ELSE IF x # None /\ ~(0 <= x.v /\ x.v <= 9) THEN "ValueError"
    ELSE "ok"

---------------------------------------------------------------------------
\* The quantizer (compress, the Variable branch).

\* A rounding that cuts off instead of rounding to the nearest multiple.
rint_floor(x, u) == (x \div u) * u

\* numpy rint on the grid: the multiple of u nearest to x, ties to the even
\* multiple.  \div and % are floor division and its remainder.
rint(x, u) ==
    LET lo == x \div u
        rem == x % u
    IN  IF 2 * rem < u THEN lo * u
        ELSE IF 2 * rem > u THEN (lo + 1) * u
        ELSE IF lo % 2 = 0 THEN lo * u ELSE (lo + 1) * u

\* numpy.round(x, decimals): decimals may be negative; more decimals than the
\* grid holds changes nothing.
np_round(x, decimals) ==
    IF decimals >= Scale THEN x
    ELSE rint(x, Pow10(Scale - decimals))

\* e = 1: the scaling exponent the code settled on (the rest is commented out)
e == 1

\* astype between floating dtypes (exact on the grid), to an integer dtype
\* (the fraction is cut off), from an integer dtype to a float (exact).
astype(x, from, to) ==
    IF IsFloat(to) THEN x
    ELSE IF IsFloat(from)
         THEN (IF x >= 0 THEN (x \div Pow10(Scale)) * Pow10(Scale)
               ELSE -(((-x) \div Pow10(Scale)) * Pow10(Scale)))
         ELSE x

\* r = (np.round(ds.astype('float64') * e, quantize) / e).astype(dt)
quantized_values(values, dt, q) ==
    [i \in 1..Len(values) |->
        astype(np_round(astype(values[i], dt, "float64") * e, q) \div e,
               "float64", dt)]

\* mae = np.max(abs(ds - r)).astype(dt)
max_abs_error(values, r, dt) ==
    astype(SeqMax([i \in 1..Len(values) |-> Abs(values[i] - r[i])]),
           dt, dt)

\* The quantized variable r with r.attrs[pm_str] = mae.  The arithmetic that
\* makes r yields a new Variable without the attributes and without the
\* encoding of ds.
quantized_Variable(ds, r_values) ==
    [dtype |-> ds.dtype, values |-> r_values,
     attrs |-> (pm_str :> max_abs_error(ds.values, r_values, ds.dtype)),
     encoding |-> EmptyDict]

\* The encoding compress stamps when dlevel is not None.
deflate_encoding(d) ==
    [k \in {"zlib", "shuffle", "complevel"} |->
        IF k = "complevel" THEN d.v ELSE TRUE]

\* if dlevel is not None: old_enc.update({...}); ds.encoding = old_enc
\* (ds is the Variable with identity id).
stamp_encoding(h, id, old_enc, d) ==
    [heap |-> IF d # None
              THEN [h EXCEPT ![id].encoding = Update(old_enc, deflate_encoding(d))]
              ELSE h,
     id |-> id]

\* A compress(ds: Variable) that quantizes whatever the dtype is.
compress_Variable_any(h, id, q, d) ==
    IF q # None
    THEN stamp_encoding(
             Append(h, quantized_Variable(
                           h[id], quantized_values(h[id].values, h[id].dtype, q.v))),
             Len(h) + 1, h[id].encoding, d)
    ELSE stamp_encoding(h, id, h[id].encoding, d)

\* compress(ds: Variable).  Returns the heap after the call and the identity
\* of the returned Variable.  A quantized variable is a new object, and the
\* old encoding is put on it only together with the deflate fields.  A
\* variable that is not quantized is returned as it is, its encoding replaced
\* in place.
compress_Variable(h, id, q, d) ==
    IF IsFloat(h[id].dtype) /\ q # None
    THEN stamp_encoding(
             Append(h, quantized_Variable(
                           h[id], quantized_values(h[id].values, h[id].dtype, q.v))),
             Len(h) + 1, h[id].encoding, d)
    ELSE stamp_encoding(h, id, h[id].encoding, d)

\* ds = DataArray(v, name=ds.name, attrs=v.attrs); ds.encoding = v.encoding.copy()
\* a new DataArray around a new Variable that has the values and a copy of the
\* attributes and of the encoding of v (c is what compress(ds.variable) gave).
wrap_DataArray(c, name) ==
    [heap |-> Append(c.heap, c.heap[c.id]),
     ref |-> [kind |-> "DataArray", name |-> name, id |-> Len(c.heap) + 1]]

\* compress(ds: DataArray)
compress_DataArray(h, da, q, d) ==
    wrap_DataArray(compress_Variable(h, da.id, q, d), da.name)

\* ds.copy(deep=True): every variable of the dataset, coordinates included,
\* becomes a new object.
RECURSIVE deep_copy(_, _, _)
deep_copy(h, vs, names) ==
    IF names = <<>> THEN [heap |-> h, vars |-> vs]
    ELSE deep_copy(Append(h, h[vs[Head(names)]]),
                   [vs EXCEPT ![Head(names)] = Len(h) + 1], Tail(names))

\* if pm_str in ds2[k].attrs.keys(): glob_mae = max(glob_mae, ds2[k].attrs[pm_str])
roll_up(glob_mae, attrs) ==
    IF Has(attrs, pm_str) THEN Max2(glob_mae, attrs[pm_str]) ELSE glob_mae

\* for k in list(ds2.keys()): ds2[k] = compress(ds2[k], quantize, dlevel), with
\* the running maximum of the precision_MAE attributes found on the results.
\* The keys of a Dataset are its data variables; ds2[k] is a DataArray around
\* the dataset's own Variable object.  c is what the call for the first key
\* gave.
RECURSIVE compress_keys(_, _, _, _, _, _)
store_key(c, vs, keys, q, d, glob_mae) ==
    compress_keys(c.heap, [vs EXCEPT ![Head(keys)] = c.ref.id], Tail(keys), q, d,
                  roll_up(glob_mae, c.heap[c.ref.id].attrs))

compress_keys(h, vs, keys, q, d, glob_mae) ==
    IF keys = <<>> THEN [heap |-> h, vars |-> vs, glob_mae |-> glob_mae]
    ELSE store_key(
             compress_DataArray(
                 h, [kind |-> "DataArray", name |-> Head(keys), id |-> vs[Head(keys)]],
                 q, d),
             vs, keys, q, d, glob_mae)

\* if quantize is not None: ds2.attrs.update({'decimal_precision': quantize,
\* pm_str: glob_mae}); return ds2
stamp_Dataset(c, ds, q) ==
    [heap |-> c.heap,
     ref |-> [kind |-> "Dataset", keys |-> ds.keys, coords |-> ds.coords,
              vars |-> c.vars,
              attrs |-> IF q # None
                        THEN Update(ds.attrs,
                                    [k \in {"decimal_precision", pm_str} |->
                                        IF k = pm_str THEN c.glob_mae ELSE q])
                        ELSE ds.attrs]]

compress_copy(ds2, ds, q, d) ==
    stamp_Dataset(compress_keys(ds2.heap, ds2.vars, ds.keys, q, d, 0), ds, q)

\* compress(ds: Dataset)
compress_Dataset(h, ds, q, d) ==
    compress_copy(deep_copy(h, ds.vars, ds.keys \o ds.coords), ds, q, d)

NoRef == [kind |-> "none"]

returned(c, kind) ==
    [heap |-> c.heap, ret |-> [kind |-> kind, id |-> c.id], err |-> "ok"]
returned_ref(c) == [heap |-> c.heap, ret |-> c.ref, err |-> "ok"]
raised(h, err) == [heap |-> h, ret |-> NoRef, err |-> err]

\* compress(ds, quantize, dlevel): the checks, then the branch of ds's type.
compress(h, ds, q, d) ==
    IF check_ds(ds) # "ok" THEN raised(h, "TypeError")
    ELSE IF check_int(q) # "ok" THEN raised(h, "TypeError")
    ELSE IF check_dlevel(d) # "ok" THEN raised(h, check_dlevel(d))
    ELSE IF ds.kind = "Variable"
         THEN returned(compress_Variable(h, ds.id, q, d), "Variable")
    ELSE IF ds.kind = "DataArray"
         THEN returned_ref(compress_DataArray(h, ds, q, d))
    ELSE returned_ref(compress_Dataset(h, ds, q, d))

\* What a reference stands for: the object with every Variable it holds.
Deref(h, ref) ==
    IF ref.kind = "Variable" THEN h[ref.id]
    ELSE IF ref.kind = "DataArray" THEN [name |-> ref.name, variable |-> h[ref.id]]
    ELSE IF ref.kind = "Dataset"
         THEN [keys |-> ref.keys, coords |-> ref.coords, attrs |-> ref.attrs,
               variables |-> [k \in DOMAIN ref.vars |-> h[ref.vars[k]]]]
    ELSE ref

\* The Variable objects a reference reaches.
IdsOf(ref) ==
    IF ref.kind \in {"Variable", "DataArray"} THEN {ref.id}
    ELSE IF ref.kind = "Dataset" THEN {ref.vars[k] : k \in DOMAIN ref.vars}
    ELSE {}

---------------------------------------------------------------------------
\* The inputs of the in-process runs.

\* An integer-valued number on the grid.
IntVal(n) == n * Pow10(Scale)

FloatValues == {<<12, 13>>, <<5, -15>>, <<IntVal(1), IntVal(-1)>>}
IntValues == {<<IntVal(1), IntVal(2)>>}
ValuesOf(dtype) == IF IsFloat(dtype) THEN FloatValues ELSE IntValues

\* The encoding of a variable read from a NetCDF-4 file (the filters of the
\* stored variable), and of a variable made in memory.
stored_encoding(level) ==
    [k \in {"zlib", "shuffle", "complevel", "fletcher32"} |->
        IF k = "complevel" THEN level
        ELSE IF k = "fletcher32" THEN FALSE
        ELSE level > 0]
InputEncodings == {EmptyDict, stored_encoding(0), stored_encoding(5)}

InputAttrs == {"units" :> 1, ("units" :> 1) @@ (pm_str :> 7)}

QuantizeArgs == {None, PyFloat(5)} \cup {PyInt(n) : n \in -1..MaxQ}
DlevelArgs == {None, PyInt(0), PyInt(5), PyInt(10)}

InputVariable(dtype, values, attrs, enc) ==
    [dtype |-> dtype, values |-> values, attrs |-> attrs, encoding |-> enc]

\* The caller's objects: a dataset with the data variables TEMP and TFLAG and
\* the coordinate lat, or one of its data variables alone.
InputRefs ==
    {[kind |-> "Dataset", keys |-> <<"TEMP", "TFLAG">>, coords |-> <<"lat">>,
      vars |-> [k \in {"TEMP", "TFLAG", "lat"} |->
                   IF k = "TEMP" THEN 1 ELSE IF k = "TFLAG" THEN 2 ELSE 3],
      attrs |-> EmptyDict]}
    \cup {[kind |-> "DataArray", name |-> n, id |-> IF n = "TEMP" THEN 1 ELSE 2] :
             n \in {"TEMP", "TFLAG"}}
    \cup {[kind |-> "Variable", id |-> i] : i \in {1, 2}}

\* No call made yet.
NoResult == [ret |-> NoRef, err |-> "none", val |-> NoRef]

InitFileIdle ==
    /\ fs = <<>>
    /\ fop = <<>>
    /\ fpc = "off"
    /\ guard = [file |-> "", quantize |-> None, dlevel |-> None,
                ret |-> FALSE, err |-> "none"]

Init ==
    /\ \E tdt \in {"float32", "int32"}, fdt \in {"int32", "float32"},
          enc \in InputEncodings, ta \in InputAttrs, fa \in InputAttrs :
         \E tv \in ValuesOf(tdt), fv \in ValuesOf(fdt) :
            heap = << InputVariable(tdt, tv, ta, enc),
                      InputVariable(fdt, fv, fa, enc),
                      InputVariable("float64", <<IntVal(1), IntVal(2)>>,
                                    "units" :> 2, enc) >>
    /\ arg \in InputRefs
    /\ snap = Deref(heap, arg)
    /\ quantize \in QuantizeArgs
    /\ dlevel \in DlevelArgs
    /\ out = NoResult
    /\ out2 = NoResult
    /\ pc = "start"
    /\ InitFileIdle

\* The caller receives what a call gave: the result or the exception.
Returns(c) ==
    /\ heap' = c.heap
    /\ out' = [ret |-> c.ret, err |-> c.err, val |-> Deref(c.heap, c.ret)]
    /\ pc' = IF c.err = "ok" THEN "returned" ELSE "raised"

ReturnsAgain(c) ==
    /\ heap' = c.heap
    /\ out2' = [ret |-> c.ret, err |-> c.err, val |-> Deref(c.heap, c.ret)]
    /\ pc' = "again"

\* result = compress(arg, quantize, dlevel)
Call ==
    /\ pc = "start"
    /\ Returns(compress(heap, arg, quantize, dlevel))
    /\ UNCHANGED <<arg, snap, quantize, dlevel, out2>>
    /\ UNCHANGED fileVars

\* again = compress(result, quantize, dlevel)
CallAgain ==
    /\ pc = "returned"
    /\ ReturnsAgain(compress(heap, out.ret, quantize, dlevel))
    /\ UNCHANGED <<arg, snap, quantize, dlevel, out>>
    /\ UNCHANGED fileVars

\* The caller changes the result in place: a new attribute on one of its
\* variables.
ModifyResult ==
    /\ pc = "returned"
    /\ \E id \in IdsOf(out.ret) :
          heap' = [heap EXCEPT ![id].attrs = Update(@, "history" :> 1)]
    /\ pc' = "modified"
    /\ UNCHANGED <<arg, snap, quantize, dlevel, out, out2>>
    /\ UNCHANGED fileVars

Next == Call \/ CallAgain \/ ModifyResult

Spec == Init /\ [][Next]_vars

---------------------------------------------------------------------------
\* The quantizer on every short floating-point variable of the grid.

Values == -MaxVal..MaxVal
ValueSeqs == UNION {[1..n -> Values] : n \in 1..MaxLen}

InitQ ==
    /\ \E dt \in {"float32", "float64"}, vs \in ValueSeqs :
          heap = << InputVariable(dt, vs, "units" :> 1, stored_encoding(0)) >>
    /\ arg = [kind |-> "Variable", id |-> 1]
    /\ snap = Deref(heap, arg)
    /\ quantize \in {PyInt(n) : n \in 0..MaxQ}
    /\ dlevel \in {None, PyInt(5)}
    /\ out = NoResult
    /\ out2 = NoResult
    /\ pc = "start"
    /\ InitFileIdle

NextQ == Call

SpecQ == InitQ /\ [][NextQ]_vars

---------------------------------------------------------------------------
\* Files.  A NetCDF file holds a dataset: its variables (data variables and
\* coordinates) with values, attributes and stored filters, and its attributes.

Absent == [kind |-> "absent"]
Partial == [kind |-> "partial"]
NcFile(ds) == [kind |-> "nc", ds |-> ds]

IsNc(f) == f.kind = "nc"

Get(dct, k, default) == IF Has(dct, k) THEN dct[k] ELSE default

\* ds.to_netcdf: the filters a variable is stored with, from its encoding.
\* Without zlib nothing is deflated or shuffled and the level reads back as 0.
written_encoding(enc) ==
    [k \in {"zlib", "shuffle", "complevel", "fletcher32"} |->
        IF k = "zlib" THEN Get(enc, "zlib", FALSE)
        ELSE IF k = "shuffle"
             THEN Get(enc, "zlib", FALSE) /\ Get(enc, "shuffle", TRUE)
        ELSE IF k = "complevel"
             THEN (IF Get(enc, "zlib", FALSE) THEN Get(enc, "complevel", 4) ELSE 0)
        ELSE Get(enc, "fletcher32", FALSE)]

\* ds.to_netcdf(path): the file written from a dataset.
to_netcdf(ds) ==
    NcFile([ds EXCEPT !.variables =
               [k \in DOMAIN ds.variables |->
                   [ds.variables[k] EXCEPT
                       !.encoding = written_encoding(ds.variables[k].encoding)]]])

\* xr.open_dataset(path): the variables of the file as new objects.
RECURSIVE load_variables(_, _, _)
load_variables(h, variables, names) ==
    IF names = <<>> THEN h
    ELSE load_variables(Append(h, variables[Head(names)]), variables, Tail(names))

Index(names, k) == CHOOSE i \in 1..Len(names) : names[i] = k

open_heap(ds) == load_variables(<<>>, ds.variables, ds.keys \o ds.coords)
open_ref(ds) ==
    [kind |-> "Dataset", keys |-> ds.keys, coords |-> ds.coords,
     vars |-> [k \in DOMAIN ds.variables |-> Index(ds.keys \o ds.coords, k)],
     attrs |-> ds.attrs]

\* What file.compress holds after ds = _nch.compress(ds, quantize, dlevel): the
\* dataset, or the exception.
in_memory(c) ==
    [err |-> c.err, ds |-> IF c.err = "ok" THEN Deref(c.heap, c.ret) ELSE <<>>]

open_and_compress(ds, q, d) ==
    in_memory(compress(open_heap(ds), open_ref(ds), q, d))

---------------------------------------------------------------------------
\* _update_is_required_compress(f, quantize, dlevel)

dp_str == "precision"

\* A number on the grid, from an int or a float.
Num(x) == IF x.t = "int" THEN x.v * Pow10(Scale) ELSE x.v

\* quantize >= ds.attrs[dp_str] is defined between numbers.
Comparable(x, y) == x.t \in {"int", "float"} /\ y.t \in {"int", "float"}

\* for _, v in ds.variables.items(): if v.encoding['complevel'] != dlevel
level_differs(ds, d) ==
    \E k \in DOMAIN ds.variables : PyInt(ds.variables[k].encoding["complevel"]) # d

\* A comparison that lets only a strictly finer stored precision count.
remaining_quantize_strict(ds, q) ==
    IF Has(ds.attrs, dp_str)
    THEN IF ds.attrs[dp_str] # None /\ q # None
         THEN IF Num(q) > Num(ds.attrs[dp_str]) THEN None ELSE q
         ELSE q
    ELSE q

\* The quantize left after the stored precision is looked at.
remaining_quantize(ds, q) ==
    IF Has(ds.attrs, dp_str)
    THEN IF ds.attrs[dp_str] # None /\ q # None
         THEN IF Num(q) >= Num(ds.attrs[dp_str]) THEN None ELSE q
         ELSE q
    ELSE q

\* The comparison of the requested with the stored precision raises.
guard_raises(ds, q) ==
    /\ Has(ds.attrs, dp_str)
    /\ ds.attrs[dp_str] # None /\ q # None
    /\ ~Comparable(q, ds.attrs[dp_str])

\* A guard whose quantize test overwrites what the level test found.
guard_overwritten(ds, q, d) ==
    IF guard_raises(ds, q) THEN [ret |-> FALSE, err |-> "TypeError"]
    ELSE [ret |-> remaining_quantize(ds, q) # None, err |-> "ok"]

update_is_required_compress(ds, q, d) ==
    IF guard_raises(ds, q) THEN [ret |-> FALSE, err |-> "TypeError"]
    ELSE [ret |-> level_differs(ds, d) \/ remaining_quantize(ds, q) # None,
          err |-> "ok"]

---------------------------------------------------------------------------
\* file.compress(from_file, quantize, dlevel, to_file), step by step, and the
\* guard, on a small file system.

Paths == {"a.nc", "a.nc.tmp", "b.nc"}

\* The datasets found on disk at the start: TEMP and TFLAG with the coordinate
\* lat, stored at one level or with an uncompressed coordinate, with or
\* without a stored precision.
StoredLevels == {<<0, 0>>, <<5, 5>>, <<5, 0>>}
StoredPrecisions == {EmptyDict} \cup {dp_str :> PyInt(n) : n \in 0..MaxQ}

StoredDataset(tv, levels, attrs) ==
    [keys |-> <<"TEMP", "TFLAG">>, coords |-> <<"lat">>, attrs |-> attrs,
     variables |->
        [k \in {"TEMP", "TFLAG", "lat"} |->
            IF k = "TEMP"
            THEN InputVariable("float32", tv, "units" :> 1, stored_encoding(levels[1]))
            ELSE IF k = "TFLAG"
            THEN InputVariable("int32", <<IntVal(1), IntVal(2)>>, "units" :> 1,
                               stored_encoding(levels[1]))
            ELSE InputVariable("float64", <<IntVal(1), IntVal(2)>>, "units" :> 2,
                               stored_encoding(levels[2]))]]

StoredDatasets ==
    {StoredDataset(tv, lv, at) :
        tv \in FloatValues, lv \in StoredLevels, at \in StoredPrecisions}

NoGuard ==
    [file |-> "", quantize |-> None, dlevel |-> None, ret |-> FALSE, err |-> "none"]

NoOp ==
    [from_file |-> "", final |-> "", to_file |-> "", modify |-> FALSE,
     quantize |-> None, dlevel |-> None, orig |-> Absent, ds |-> <<>>]

InitApiIdle ==
    /\ heap = <<>>
    /\ arg = NoRef
    /\ snap = NoRef
    /\ quantize = None
    /\ dlevel = None
    /\ out = NoResult
    /\ out2 = NoResult
    /\ pc = "off"

InitFile ==
    /\ \E a \in StoredDatasets, b \in {Absent, NcFile(StoredDataset(
                                          <<IntVal(1), IntVal(-1)>>, <<5, 5>>,
                                          dp_str :> PyInt(1)))} :
          fs = [p \in Paths |->
                   IF p = "a.nc" THEN NcFile(a) ELSE IF p = "b.nc" THEN b ELSE Absent]
    /\ fop = NoOp
    /\ fpc = "idle"
    /\ guard = NoGuard
    /\ InitApiIdle

FileQuantizeArgs == {None, PyFloat(5)} \cup {PyInt(n) : n \in 0..MaxQ}
GuardQuantize == {None} \cup {PyInt(n) : n \in 0..MaxQ + 1}
GuardDlevel == {None, PyInt(0), PyInt(5)}

\* lines 148-153: to_file defaults to from_file; the same path means the
\* result is written to from_file + '.tmp'.
StartCompress ==
    /\ fpc = "idle"
    /\ \E to \in {"", "a.nc", "b.nc"}, q \in FileQuantizeArgs, d \in DlevelArgs :
          fop' = [from_file |-> "a.nc",
                  final |-> IF to = "" THEN "a.nc" ELSE to,
                  to_file |-> IF to = "" \/ to = "a.nc" THEN "a.nc.tmp" ELSE to,
                  modify |-> (to = "" \/ to = "a.nc"),
                  quantize |-> q, dlevel |-> d, orig |-> fs["a.nc"], ds |-> <<>>]
    /\ fpc' = "open"
    /\ guard' = NoGuard
    /\ UNCHANGED fs
    /\ UNCHANGED apiVars

\* What ds holds once lines 155-156 are through.
Opened(m) ==
    /\ fop' = [fop EXCEPT !.ds = m.ds]
    /\ fpc' = IF m.err = "ok" THEN "write" ELSE "failed"

\* lines 155-156: ds = open_dataset(from_file); ds = compress(ds, quantize, dlevel)
OpenAndCompress ==
    /\ fpc = "open"
    /\ IF IsNc(fs[fop.from_file])
       THEN Opened(open_and_compress(fs[fop.from_file].ds, fop.quantize, fop.dlevel))
       ELSE fpc' = "failed" /\ UNCHANGED fop
    /\ UNCHANGED <<fs, guard>>
    /\ UNCHANGED apiVars

\* line 157: ds.to_netcdf(to_file) creates the file ...
WriteBegin ==
    /\ fpc = "write"
    /\ fs' = [fs EXCEPT ![fop.to_file] = Partial]
    /\ fpc' = "writing"
    /\ UNCHANGED <<fop, guard>>
    /\ UNCHANGED apiVars

\* ... and completes it (line 158 closes the dataset).
WriteEnd ==
    /\ fpc = "writing"
    /\ fs' = [fs EXCEPT ![fop.to_file] = to_netcdf(fop.ds)]
    /\ fpc' = IF fop.modify THEN "written" ELSE "done"
    /\ UNCHANGED <<fop, guard>>
    /\ UNCHANGED apiVars

\* line 161: _remove(from_file)
Remove ==
    /\ fpc = "written"
    /\ fs' = [fs EXCEPT ![fop.from_file] = Absent]
    /\ fpc' = "removed"
    /\ UNCHANGED <<fop, guard>>
    /\ UNCHANGED apiVars

\* line 162: _mv(to_file, from_file)
Move ==
    /\ fpc = "removed"
    /\ fs' = [fs EXCEPT ![fop.from_file] = fs[fop.to_file], ![fop.to_file] = Absent]
    /\ fpc' = "done"
    /\ UNCHANGED <<fop, guard>>
    /\ UNCHANGED apiVars

\* The step that is due raises, or the process is stopped before it: the
\* operation ends where it is.
Fail ==
    /\ fpc \in {"open", "write", "writing", "written", "removed"}
    /\ fpc' = "failed"
    /\ UNCHANGED <<fs, fop, guard>>
    /\ UNCHANGED apiVars

\* What the guard answered.
Guarded(f, q, d, r) ==
    guard' = [file |-> f, quantize |-> q, dlevel |-> d, ret |-> r.ret, err |-> r.err]

\* _update_is_required_compress(f, quantize, dlevel) on a NetCDF file, before an
\* operation or after it is through.
GuardCall ==
    /\ fpc \in {"idle", "done"}
    /\ guard = NoGuard
    /\ \E f \in Paths, q \in GuardQuantize, d \in GuardDlevel :
          /\ IsNc(fs[f])
          /\ Guarded(f, q, d, update_is_required_compress(fs[f].ds, q, d))
    /\ UNCHANGED <<fs, fop, fpc>>
    /\ UNCHANGED apiVars

NextFile ==
    \/ StartCompress
    \/ OpenAndCompress
    \/ WriteBegin
    \/ WriteEnd
    \/ Remove
    \/ Move
    \/ Fail
    \/ GuardCall

SpecFile == InitFile /\ [][NextFile]_vars

---------------------------------------------------------------------------
\* file.ncks(from_file, quantize, dlevel, to_file, append_stats), step by step.

\* A Python str, as the sequence of its characters.
PyStr(cs) == [t |-> "str", v |-> cs]

Digit(c) ==
    CASE c = "0" -> 0 [] c = "1" -> 1 [] c = "2" -> 2 [] c = "3" -> 3
      [] c = "4" -> 4 [] c = "5" -> 5 [] c = "6" -> 6 [] c = "7" -> 7
      [] c = "8" -> 8 [] c = "9" -> 9 [] OTHER -> -1

\* The number a run of decimal digits writes, -1 when it is not one.
RECURSIVE digits_value(_, _)
digits_value(cs, acc) ==
    IF cs = <<>> THEN acc
    ELSE IF Digit(Head(cs)) < 0 THEN -1
    ELSE digits_value(Tail(cs), 10 * acc + Digit(Head(cs)))

\* quantize.startswith('.')
startswith_dot(cs) == Len(cs) > 0 /\ cs[1] = "."

\* int(quantize): digits with an optional sign, ValueError otherwise.
py_int(cs) ==
    IF Len(cs) > 1 /\ cs[1] = "-" /\ digits_value(Tail(cs), 0) >= 0
    THEN [err |-> "ok", val |-> PyInt(-digits_value(Tail(cs), 0))]
    ELSE IF Len(cs) > 0 /\ digits_value(cs, 0) >= 0
    THEN [err |-> "ok", val |-> PyInt(digits_value(cs, 0))]
    ELSE [err |-> "ValueError", val |-> None]

\* float(quantize) of a '.N' string: N * 10^-len(N), on the grid.
py_float(cs) ==
    IF Len(cs) > 1 /\ digits_value(Tail(cs), 0) >= 0
    THEN [err |-> "ok",
          val |-> PyFloat((digits_value(Tail(cs), 0) * Pow10(Scale))
                              \div Pow10(Len(cs) - 1))]
    ELSE [err |-> "ValueError", val |-> None]

\* q = float(quantize) if quantize.startswith('.') else int(quantize)
parse_quantize(cs) == IF startswith_dot(cs) THEN py_float(cs) ELSE py_int(cs)

\* if isinstance(q, int) and q == 0: raise ValueError
parsed_check(p) ==
    IF p.err # "ok" THEN p.err
    ELSE IF p.val.t = "int" /\ p.val.v = 0 THEN "ValueError"
    ELSE "ok"

\* lines 189-195: what the checks of ncks raise.
ncks_check(q, d) ==
    IF q = None /\ d = None THEN "ValueError"
    ELSE IF q = None THEN "ok"
    ELSE IF q.t # "str" THEN "AttributeError"
    ELSE parsed_check(parse_quantize(q.v))

\* str(x) and f"{x}" of an int or a str.
RECURSIVE Join(_)
Join(cs) == IF cs = <<>> THEN "" ELSE Head(cs) \o Join(Tail(cs))
py_str(x) == IF x.t = "str" THEN Join(x.v) ELSE ToString(x.v)

dfl_lvl(d) == IF d # None THEN <<"-L", py_str(d), "--baa=8">> ELSE <<>>
ppc(q) == IF q # None THEN <<"--ppc", "default=" \o py_str(q)>> ELSE <<>>

\* A command line with the two option groups in the other order.
ncks_cmd_swapped(from_file, to_file, q, d) ==
    <<"ncks", "-O", "-7", "--no_abc">> \o ppc(q) \o dfl_lvl(d)
        \o <<from_file, to_file>>

\* lines 204-207
ncks_cmd(from_file, to_file, q, d) ==
    <<"ncks", "-O", "-7", "--no_abc">> \o dfl_lvl(d) \o ppc(q)
        \o <<from_file, to_file>>

\* What the external tool writes, as far as this program depends on it: the
\* variables of the source, the floating-point ones rounded to some number of
\* decimals when --ppc is given, every variable stored at the level of -L when
\* that is given, and the attributes of the source.
tool_variable(v, digits, d) ==
    [v EXCEPT
        !.values = IF IsFloat(v.dtype)
                   THEN quantized_values(v.values, v.dtype, digits) ELSE @,
        !.encoding = IF d # None THEN stored_encoding(d.v) ELSE @]

tool_output(ds, digits, d) ==
    [ds EXCEPT !.variables =
         [k \in DOMAIN ds.variables |-> tool_variable(ds.variables[k], digits, d)]]

ToolDigits(q) == IF q = None THEN {Scale} ELSE {0, 1, Scale}

RECURSIVE SeqMin(_)
SeqMin(s) == IF Len(s) = 1 THEN s[1] ELSE -Max2(-s[1], -SeqMin(Tail(s)))

RECURSIVE SeqSum(_)
SeqSum(s) == IF s = <<>> THEN 0 ELSE Head(s) + SeqSum(Tail(s))

\* np.sqrt on the grid: the largest r with r * r <= n.
RECURSIVE sqrt_from(_, _)
sqrt_from(n, r) == IF (r + 1) * (r + 1) > n THEN r ELSE sqrt_from(n, r + 1)
np_sqrt(n) == sqrt_from(n, 0)

\* lines 219-228: the statistics of one variable, x from the source and y from
\* the produced file.
var_attrs(x, y) ==
    [range |-> <<SeqMin(y), SeqMax(y)>>,
     precision_MAXE |-> SeqMax([i \in 1..Len(x) |-> Abs(x[i] - y[i])]),
     precision_RMSE |->
         np_sqrt(SeqSum([i \in 1..Len(x) |-> (x[i] - y[i]) * (x[i] - y[i])])
                     \div Len(x))]

\* A roll-up that averages with what it has instead of taking the maximum.
glob_update_mean(glob, st) ==
    [maxe |-> Max2(glob.maxe, st.precision_MAXE),
     rmse |-> (glob.rmse + st.precision_RMSE) \div 2]

\* lines 229-230
glob_update(glob, st) ==
    [maxe |-> Max2(glob.maxe, st.precision_MAXE),
     rmse |-> Max2(glob.rmse, st.precision_RMSE)]

\* lines 217-233: the loop over nco2.variables, in the order of the file.
RECURSIVE glob_stats(_, _, _, _)
glob_stats(glob, src, dst, names) ==
    IF names = <<>> THEN glob
    ELSE glob_stats(
             glob_update(glob, var_attrs(src.variables[Head(names)].values,
                                         dst.variables[Head(names)].values)),
             src, dst, Tail(names))

\* lines 231-232: the attributes set on every variable of the produced file.
with_var_attrs(src, dst) ==
    [dst EXCEPT !.variables =
         [k \in DOMAIN dst.variables |->
             [dst.variables[k] EXCEPT
                 !.attrs = Update(@, var_attrs(src.variables[k].values,
                                               dst.variables[k].values))]]]

\* lines 236-238: nco2.precision = quantize; precision_MAXE; precision_RMSE
with_glob_attrs(ds, q, glob) ==
    [ds EXCEPT !.attrs =
         Update(@, [precision |-> q,
                    precision_MAXE |-> glob.maxe,
                    precision_RMSE |-> glob.rmse])]

append_stats(src, dst, q) ==
    with_glob_attrs(with_var_attrs(src, dst), q,
                    glob_stats([maxe |-> 0, rmse |-> 0], src, dst,
                               dst.keys \o dst.coords))

NcksPaths == {"a.nc", "a.nc.tmp", "b.nc", "c.nc"}

\* The sources: TEMP, TFLAG and the coordinate lat, or a file without
\* variables.
NcksDataset(tv, level) ==
    [keys |-> <<"TEMP", "TFLAG">>, coords |-> <<"lat">>, attrs |-> "title" :> 1,
     variables |->
        [k \in {"TEMP", "TFLAG", "lat"} |->
            IF k = "TEMP"
            THEN InputVariable("float32", tv, "units" :> 1, stored_encoding(level))
            ELSE IF k = "TFLAG"
            THEN InputVariable("int32", <<IntVal(1), IntVal(2)>>, "units" :> 1,
                               stored_encoding(level))
            ELSE InputVariable("float64", <<25, IntVal(1) + 50>>, "units" :> 2,
                               stored_encoding(level))]]

NoVariables ==
    [keys |-> <<>>, coords |-> <<>>, attrs |-> EmptyDict, variables |-> <<>>]

NcksDatasets ==
    {NcksDataset(tv, lv) : tv \in FloatValues, lv \in {0, 5}} \cup {NoVariables}

NcksQuantizeArgs ==
    {None, PyInt(3),
     PyStr(<<"3">>), PyStr(<<"1">>), PyStr(<<"0">>),
     PyStr(<<".", "3">>), PyStr(<<".", "0">>)}
NcksDlevelArgs == {None, PyInt(0), PyInt(5)}

InitNcks ==
    /\ \E a \in NcksDatasets :
          fs = [p \in NcksPaths |-> IF p = "a.nc" THEN NcFile(a) ELSE Absent]
    /\ fop = NoOp
    /\ fpc = "idle"
    /\ guard = NoGuard
    /\ InitApiIdle

\* The operation once lines 189-207 are through: the exception of the checks,
\* or the paths and the command line.
NcksOp(to, q, d, stats, err) ==
    [from_file |-> "a.nc",
     final |-> IF to = "" THEN "a.nc" ELSE to,
     to_file |-> IF to = "" \/ to = "a.nc" THEN "a.nc.tmp" ELSE to,
     modify |-> (to = "" \/ to = "a.nc"),
     quantize |-> q, dlevel |-> d, append_stats |-> stats,
     orig |-> fs["a.nc"], err |-> err,
     cmd |-> IF err = "ok"
             THEN ncks_cmd("a.nc",
                           IF to = "" \/ to = "a.nc" THEN "a.nc.tmp" ELSE to, q, d)
             ELSE <<>>]

\* lines 189-207: the checks, the paths, the command line.
NcksStart ==
    /\ fpc = "idle"
    /\ fop = NoOp
    /\ \E to \in {"", "b.nc"}, q \in NcksQuantizeArgs, d \in NcksDlevelArgs,
          stats \in BOOLEAN :
          /\ fop' = NcksOp(to, q, d, stats, ncks_check(q, d))
          /\ fpc' = IF ncks_check(q, d) = "ok" THEN "run" ELSE "failed"
    /\ UNCHANGED <<fs, guard>>
    /\ UNCHANGED apiVars

\* line 208: the tool runs and writes to_file.
NcksRun ==
    /\ fpc = "run"
    /\ \E digits \in ToolDigits(fop.quantize) :
          fs' = [fs EXCEPT ![fop.to_file] =
                    NcFile(tool_output(fs[fop.from_file].ds, digits, fop.dlevel))]
    /\ fpc' = IF fop.append_stats THEN "stats"
              ELSE IF fop.modify THEN "written" ELSE "done"
    /\ UNCHANGED <<fop, guard>>
    /\ UNCHANGED apiVars

\* lines 210-238: the statistics are added to the produced file.  Setting the
\* attribute precision to None raises after the variables have got theirs.
NcksStats ==
    /\ fpc = "stats"
    /\ fs' = [fs EXCEPT ![fop.to_file] =
                 NcFile(IF fop.quantize = None
                        THEN with_var_attrs(fs[fop.from_file].ds, fs[fop.to_file].ds)
                        ELSE append_stats(fs[fop.from_file].ds, fs[fop.to_file].ds,
                                          fop.quantize))]
    /\ fpc' = IF fop.quantize = None THEN "failed"
              ELSE IF fop.modify THEN "written" ELSE "done"
    /\ fop' = [fop EXCEPT !.err = IF fop.quantize = None THEN "TypeError" ELSE @]
    /\ UNCHANGED guard
    /\ UNCHANGED apiVars

\* line 241: _remove(from_file)
NcksRemove ==
    /\ fpc = "written"
    /\ fs' = [fs EXCEPT ![fop.from_file] = Absent]
    /\ fpc' = "removed"
    /\ UNCHANGED <<fop, guard>>
    /\ UNCHANGED apiVars

\* line 242: _mv(to_file, from_file)
NcksMove ==
    /\ fpc = "removed"
    /\ fs' = [fs EXCEPT ![fop.from_file] = fs[fop.to_file], ![fop.to_file] = Absent]
    /\ fpc' = "done"
    /\ UNCHANGED <<fop, guard>>
    /\ UNCHANGED apiVars

\* The tool exits with an error (check=True raises), or a later step raises:
\* the operation ends where it is.
NcksFail ==
    /\ fpc \in {"run", "stats", "written", "removed"}
    /\ fpc' = "failed"
    /\ fop' = [fop EXCEPT !.err = "OSError"]
    /\ UNCHANGED <<fs, guard>>
    /\ UNCHANGED apiVars

\* The quantize of the in-process path that stands for the same request.
in_process_quantize(q) == IF q = None THEN None ELSE parse_quantize(q.v).val

\* What file.compress leaves at to_file (file.py lines 155-157).
compressed_file(m, old) == IF m.err = "ok" THEN to_netcdf(m.ds) ELSE old

\* file.compress("a.nc", q, dlevel, "c.nc") with the request ncks was given,
\* after ncks has produced "b.nc" from the same source.
CompressSame ==
    /\ fpc = "done"
    /\ ~fop.modify
    /\ fs["c.nc"] = Absent
    /\ in_process_quantize(fop.quantize).t \in {"None", "int"}
    /\ fs' = [fs EXCEPT !["c.nc"] =
                 compressed_file(
                     open_and_compress(fs["a.nc"].ds,
                                       in_process_quantize(fop.quantize),
                                       fop.dlevel),
                     Absent)]
    /\ fs'["c.nc"] # Absent
    /\ UNCHANGED <<fop, fpc, guard>>
    /\ UNCHANGED apiVars

\* What the guard answered on the file of each path.
GuardedBoth(q, d, rn, rc) ==
    guard' = [file |-> "both", quantize |-> q, dlevel |-> d,
              ret |-> rn.ret, err |-> rn.err,
              ret_compress |-> rc.ret, err_compress |-> rc.err]

\* _update_is_required_compress on "b.nc" and on "c.nc" with the request that
\* produced them.
GuardProduced ==
    /\ fpc = "done"
    /\ guard = NoGuard
    /\ IsNc(fs["b.nc"]) /\ IsNc(fs["c.nc"])
    /\ GuardedBoth(in_process_quantize(fop.quantize), fop.dlevel,
                   update_is_required_compress(
                       fs["b.nc"].ds, in_process_quantize(fop.quantize), fop.dlevel),
                   update_is_required_compress(
                       fs["c.nc"].ds, in_process_quantize(fop.quantize), fop.dlevel))
    /\ UNCHANGED <<fs, fop, fpc>>
    /\ UNCHANGED apiVars

NextNcks ==
    \/ NcksStart
    \/ NcksRun
    \/ NcksStats
    \/ NcksRemove
    \/ NcksMove
    \/ NcksFail
    \/ CompressSame
    \/ GuardProduced

SpecNcks == InitNcks /\ [][NextNcks]_vars

---------------------------------------------------------------------------
\* The compress command (compress_cmd): the loop over the source files.

\* A file that is not a NetCDF file.
Other == [kind |-> "other"]

\* _isfile(f) and is_netcdf(f)
isfile(f) == f.kind # "absent"
is_netcdf(f) == f.kind = "nc"

BatchSources == <<"s1.nc", "s2.nc">>
BatchPaths == {"s1.nc", "s2.nc", "t1.nc", "t2.nc", "s1.nc.tmp", "s2.nc.tmp"}

\* f2: the source itself when one path is given, else its place under target.
target_of(f1, inplace) ==
    IF inplace THEN f1 ELSE IF f1 = "s1.nc" THEN "t1.nc" ELSE "t2.nc"

\* The path file.compress writes (file.py lines 151-153).
written_path(f1, f2) == IF f1 = f2 THEN f1 \o ".tmp" ELSE f2

BatchQuantize == {PyInt(0), PyInt(2)}
BatchDlevel == {PyInt(0), PyInt(5)}

\* What is found on disk: sources that are NetCDF files, other files or
\* missing, and targets that are missing, other files, or NetCDF files stored
\* at level 5 with precision 1 or at level 0 without one.
BatchSourceFiles ==
    {NcFile(StoredDataset(tv, <<0, 0>>, EmptyDict)) : tv \in FloatValues}
        \cup {Other, Absent}
BatchTargetFiles ==
    {Absent, Other,
     NcFile(StoredDataset(<<IntVal(1), IntVal(-1)>>, <<5, 5>>, dp_str :> PyInt(1))),
     NcFile(StoredDataset(<<IntVal(1), IntVal(-1)>>, <<0, 0>>, EmptyDict))}

InitBatch ==
    /\ \E s1 \in BatchSourceFiles, s2 \in BatchSourceFiles \ {Absent},
          t1, t2 \in BatchTargetFiles :
          fs = [p \in BatchPaths |->
                   IF p = "s1.nc" THEN s1 ELSE IF p = "s2.nc" THEN s2
                   ELSE IF p = "t1.nc" THEN t1 ELSE IF p = "t2.nc" THEN t2
                   ELSE Absent]
    /\ \E q \in BatchQuantize, d \in BatchDlevel, ow \in BOOLEAN, ip \in BOOLEAN :
          fop = [source |-> BatchSources, i |-> 1, last |-> 0,
                 quantize |-> q, dlevel |-> d, overwrite |-> ow, inplace |-> ip,
                 copy_non_nc_files |-> TRUE, prev |-> <<>>, err |-> "ok"]
    /\ fpc = "loop"
    /\ guard = NoGuard
    /\ InitApiIdle

\* The file of this iteration and its target.
f1 == fop.source[fop.i]
f2 == target_of(fop.source[fop.i], fop.inplace)

\* A branch that takes the target for rewritable whether or not overwrite was
\* requested.
branch_overwriting(src, tgt, g, overwrite) ==
    IF ~isfile(src) \/ ~is_netcdf(src) THEN "continue"
    ELSE IF ~isfile(tgt) THEN "compress"
    ELSE IF ~is_netcdf(tgt) THEN "copy"
    ELSE IF g.err # "ok" THEN "guard raised"
    ELSE IF ~g.ret THEN "already compressed"
    ELSE "compress"

\* lines 335-364: what the iteration does with a source and a target, g being
\* the guard's answer on the target.
branch(src, tgt, g, overwrite) ==
    IF ~isfile(src) \/ ~is_netcdf(src) THEN "continue"
    ELSE IF ~isfile(tgt) THEN "compress"
    ELSE IF ~is_netcdf(tgt) THEN "copy"
    ELSE IF g.err # "ok" THEN "guard raised"
    ELSE IF ~g.ret THEN "already compressed"
    ELSE IF ~overwrite THEN "FileExistsError"
    ELSE "compress"

\* The guard's answer on the target, where the loop asks for it.
guard_answer(tgt, q, d) ==
    IF is_netcdf(tgt) THEN update_is_required_compress(tgt.ds, q, d)
    ELSE [ret |-> FALSE, err |-> "ok"]

this_branch ==
    branch(fs[f1], fs[f2], guard_answer(fs[f2], fop.quantize, fop.dlevel),
           fop.overwrite)

\* The loop goes on to the next file, or is through.
next_file ==
    /\ fop' = [fop EXCEPT !.i = @ + 1, !.last = fop.i, !.prev = fs]
    /\ fpc' = IF fop.i = Len(fop.source) THEN "finished" ELSE "loop"

\* An exception leaves the loop and the command.
raise(err) ==
    /\ fop' = [fop EXCEPT !.last = fop.i, !.prev = fs, !.err = err]
    /\ fpc' = "raised"

\* lines 336-350: a source that is no NetCDF file is copied to a missing
\* target; a missing source is passed over.
BatchContinue ==
    /\ fpc = "loop"
    /\ this_branch = "continue"
    /\ fs' = IF isfile(fs[f1]) /\ ~isfile(fs[f2]) /\ fop.copy_non_nc_files
             THEN [fs EXCEPT ![f2] = fs[f1]] ELSE fs
    /\ next_file
    /\ UNCHANGED guard
    /\ UNCHANGED apiVars

\* lines 354-356: the guard answers False
BatchAlreadyCompressed ==
    /\ fpc = "loop"
    /\ this_branch = "already compressed"
    /\ Guarded(f2, fop.quantize, fop.dlevel,
               guard_answer(fs[f2], fop.quantize, fop.dlevel))
    /\ next_file
    /\ UNCHANGED fs
    /\ UNCHANGED apiVars

\* lines 357-358: the guard answers True and overwrite is not set
BatchFileExists ==
    /\ fpc = "loop"
    /\ this_branch = "FileExistsError"
    /\ Guarded(f2, fop.quantize, fop.dlevel,
               guard_answer(fs[f2], fop.quantize, fop.dlevel))
    /\ raise("FileExistsError")
    /\ UNCHANGED fs
    /\ UNCHANGED apiVars

\* lines 359-362: the target exists and is no NetCDF file
BatchCopy ==
    /\ fpc = "loop"
    /\ this_branch = "copy"
    /\ fs' = IF fop.copy_non_nc_files THEN [fs EXCEPT ![f2] = fs[f1]] ELSE fs
    /\ next_file
    /\ UNCHANGED guard
    /\ UNCHANGED apiVars

\* lines 364-367: file.compress(f1, quantize, dlevel, f2) runs through
BatchCompress ==
    /\ fpc = "loop"
    /\ this_branch = "compress"
    /\ fs' = [fs EXCEPT ![f2] =
                 compressed_file(
                     open_and_compress(fs[f1].ds, fop.quantize, fop.dlevel), @)]
    /\ guard' = IF is_netcdf(fs[f2])
                THEN [file |-> f2, quantize |-> fop.quantize,
                      dlevel |-> fop.dlevel, ret |-> TRUE, err |-> "ok"]
                ELSE guard
    /\ next_file
    /\ UNCHANGED apiVars

\* An OSError in the iteration: the guard cannot open the target, or
\* file.compress cannot open the source or cannot finish writing.  Nothing in
\* the loop catches it.
BatchIOError ==
    /\ fpc = "loop"
    /\ this_branch \in {"already compressed", "FileExistsError", "compress"}
    /\ \/ UNCHANGED fs
       \/ /\ this_branch = "compress"
          /\ fs' = [fs EXCEPT ![written_path(f1, f2)] = Partial]
    /\ raise("OSError")
    /\ UNCHANGED guard
    /\ UNCHANGED apiVars

NextBatch ==
    \/ BatchContinue
    \/ BatchAlreadyCompressed
    \/ BatchFileExists
    \/ BatchCopy
    \/ BatchCompress
    \/ BatchIOError

SpecBatch == InitBatch /\ [][NextBatch]_vars

---------------------------------------------------------------------------
\* Properties.

SetMax(S) == CHOOSE m \in S : \A x \in S : x <= m

\* The dataset the recorded guard call looked at, and what is stored in it.
GuardedDataset == fs[guard.file].ds
StoredLevelsOf(ds) ==
    {ds.variables[k].encoding["complevel"] : k \in DOMAIN ds.variables}
HasPrecision(ds) == Has(ds.attrs, dp_str) /\ ds.attrs[dp_str] # None

\* The guard was called with an int or None on a file whose precision, if
\* stored, is an int.
NumericGuardCall ==
    /\ guard.file # ""
    /\ guard.quantize.t \in {"None", "int"}
    /\ Has(GuardedDataset.attrs, dp_str) => GuardedDataset.attrs[dp_str].t = "int"

\* A request the documentation allows: quantize none or an int >= 0.
ValidQuantize(q) == q = None \/ (q.t = "int" /\ q.v >= 0)

\* C1: once file.compress has written its result with (q, d), the guard called
\* on that file with the same (q, d) answers "no reprocessing needed".
C1_GuardFalseAfterCompress ==
    (/\ fpc = "done"
     /\ ValidQuantize(fop.quantize)
     /\ fop.dlevel # None
     /\ guard.file = fop.final
     /\ guard.quantize = fop.quantize
     /\ guard.dlevel = fop.dlevel)
    => (guard.err = "ok" /\ guard.ret = FALSE)

C3_PrecisionRule ==
    (/\ NumericGuardCall
     /\ guard.dlevel # None
     /\ StoredLevelsOf(GuardedDataset) = {guard.dlevel.v})
    => /\ guard.err = "ok"
       /\ guard.ret = FALSE <=>
             \/ guard.quantize = None
             \/ /\ HasPrecision(GuardedDataset)
                /\ guard.quantize.v >= GuardedDataset.attrs[dp_str].v

\* C3 witness: stored precision 3, quantize 4 requested, levels equal: the
\* guard answers "no reprocessing needed".
C3_Witness ==
    /\ NumericGuardCall
    /\ guard.dlevel # None
    /\ StoredLevelsOf(GuardedDataset) = {guard.dlevel.v}
    /\ HasPrecision(GuardedDataset)
    /\ GuardedDataset.attrs[dp_str] = PyInt(3)
    /\ guard.quantize = PyInt(4)
    /\ guard.ret = FALSE

\* The values and attributes of an object, without the encodings.
VariableView(v) == [values |-> v.values, attrs |-> v.attrs]
View(kind, val) ==
    IF kind = "Variable" THEN VariableView(val)
    ELSE IF kind = "DataArray" THEN VariableView(val.variable)
    ELSE [attrs |-> val.attrs,
          variables |-> [k \in DOMAIN val.variables |->
                            VariableView(val.variables[k])]]

\* C4: compress(compress(ds, q, d), q, d) has the same variable values, the
\* same per-variable attributes and the same dataset-level attributes as
\* compress(ds, q, d).
C4_CompressIdempotent ==
    pc = "again" /\ out2.err = "ok" /\ ValidQuantize(quantize)
    => View(arg.kind, out2.val) = View(arg.kind, out.val)

\* C5: the TFLAG variable of compress(ds, quantize, dlevel) has the values, the
\* attributes and the encoding it has in ds.
C5_TflagUntouched ==
    pc = "returned" /\ arg.kind = "Dataset" /\ ValidQuantize(quantize)
    => out.val.variables["TFLAG"] = snap.variables["TFLAG"]

\* C6: during an in-place file.compress the final path always holds the
\* complete original file or the complete new file, and a failure before the
\* rename leaves the original there.
C6_InPlaceSafe ==
    fop.modify /\ fpc # "idle"
    => \/ fs[fop.final] = fop.orig
       \/ fpc = "done" /\ fs[fop.final] = to_netcdf(fop.ds)

\* C7: after compress returns, and after later changes to the result, the
\* caller's object has the values, attributes and encoding it had before the
\* call.
C7_ArgumentUnchanged ==
    pc \in {"returned", "modified"} /\ ValidQuantize(quantize)
    => Deref(heap, arg) = snap

\* The deflate fields of an encoding.
DeflateFields(enc) ==
    [k \in {"zlib", "shuffle", "complevel"} \cap DOMAIN enc |-> enc[k]]

\* C8: with a deflate level d every variable of the result outside the
\* exclusion set, coordinates included, has zlib and shuffle enabled and level
\* d; without one the deflate fields of every variable are as they were.
C8_EncodingStamp ==
    pc = "returned" /\ arg.kind = "Dataset" /\ ValidQuantize(quantize)
    => IF dlevel # None
       THEN \A k \in (DOMAIN out.val.variables) \ exclude_vars :
               DeflateFields(out.val.variables[k].encoding)
                   = deflate_encoding(dlevel)
       ELSE \A k \in DOMAIN out.val.variables :
               DeflateFields(out.val.variables[k].encoding)
                   = DeflateFields(snap.variables[k].encoding)

\* The data variables this run quantized, and the errors it recorded on them.
QuantizedKeys ==
    {k \in DOMAIN snap.variables :
        /\ \E i \in 1..Len(snap.keys) : snap.keys[i] = k
        /\ IsFloat(snap.variables[k].dtype)}
RecordedErrors == {out.val.variables[k].attrs[pm_str] : k \in QuantizedKeys}

\* C9: with a quantize q the result has decimal_precision = q and
\* precision_MAE = the maximum of the errors this run recorded on the variables
\* it quantized, 0 when it quantized none; without one neither attribute is
\* written.
C9_RollUp ==
    pc = "returned" /\ arg.kind = "Dataset" /\ ValidQuantize(quantize)
    => IF quantize # None
       THEN /\ out.val.attrs["decimal_precision"] = quantize
            /\ out.val.attrs[pm_str] = SetMax(RecordedErrors \cup {0})
       ELSE out.val.attrs = snap.attrs

\* C10: the quantized values r of a floating-point variable with values v
\* satisfy |v - r| <= 0.5 * 10^-q in every element, and the precision_MAE
\* recorded on the variable is max |v - r|.
C10_QuantizerBound ==
    pc = "returned"
    => /\ Len(out.val.values) = Len(snap.values)
       /\ \A i \in 1..Len(snap.values) :
             2 * Abs(snap.values[i] - out.val.values[i]) * Pow10(quantize.v)
                 <= Pow10(Scale)
       /\ out.val.attrs[pm_str] =
             SetMax({Abs(snap.values[i] - out.val.values[i]) :
                        i \in 1..Len(snap.values)})

\* C10 witness: a variable with an element half way between two multiples of
\* 10^-q, where the bound is met, and an element with a smaller error.
C10_Witness ==
    /\ pc = "returned"
    /\ \E i, j \in 1..Len(snap.values) :
          /\ 2 * Abs(snap.values[i] - out.val.values[i]) * Pow10(quantize.v)
                = Pow10(Scale)
          /\ Abs(snap.values[j] - out.val.values[j])
                < Abs(snap.values[i] - out.val.values[i])
    /\ out.val.attrs[pm_str] > 0

\* C11: compress raises, and returns nothing, whenever quantize is a negative
\* integer or is not an integer; with a valid deflate level it accepts every
\* integer quantize >= 0.
C11_QuantizeValidation ==
    pc \in {"returned", "raised"}
    => /\ ~ValidQuantize(quantize) => (out.err # "ok" /\ out.ret = NoRef)
       /\ (ValidQuantize(quantize) /\ check_dlevel(dlevel) = "ok")
             => out.err = "ok"

\* The variables of the argument paired with the variables of the result that
\* stand in their place.
VariablePairs ==
    IF arg.kind = "Variable" THEN {<<snap, out.val>>}
    ELSE IF arg.kind = "DataArray" THEN {<<snap.variable, out.val.variable>>}
    ELSE {<<snap.variables[k], out.val.variables[k]>> :
             k \in DOMAIN snap.variables}

\* C18: a floating-point variable quantized by compress keeps its dtype, keeps
\* every attribute it had (precision_MAE apart) and keeps every encoding field
\* it had (the deflate fields apart, and those only with a deflate level).
C18_QuantizationFrame ==
    (pc = "returned" /\ ValidQuantize(quantize) /\ quantize # None)
    => \A p \in VariablePairs :
          (IsFloat(p[1].dtype) /\ p[2] # p[1])
          => /\ p[2].dtype = p[1].dtype
             /\ Without(p[2].attrs, {pm_str}) = Without(p[1].attrs, {pm_str})
             /\ IF dlevel = None
                THEN p[2].encoding = p[1].encoding
                ELSE Without(p[2].encoding, {"zlib", "shuffle", "complevel"})
                       = Without(p[1].encoding, {"zlib", "shuffle", "complevel"})

\* C19: a variable whose dtype is not floating point comes out of compress
\* with the values it had and with no precision_MAE attribute it did not have.
C19_NonFloatPassThrough ==
    pc = "returned"
    => \A p \in VariablePairs :
          ~IsFloat(p[1].dtype)
          => /\ p[2].values = p[1].values
             /\ p[2].dtype = p[1].dtype
             /\ Has(p[2].attrs, pm_str)
                   => (Has(p[1].attrs, pm_str)
                       /\ p[2].attrs[pm_str] = p[1].attrs[pm_str])

\* C19 witness: an int32 variable without precision_MAE went through a call
\* that quantizes floating-point variables to one decimal.
C19_Witness ==
    /\ pc = "returned"
    /\ quantize = PyInt(1)
    /\ \E p \in VariablePairs :
          /\ p[1].dtype = "int32"
          /\ ~Has(p[1].attrs, pm_str)
          /\ ~Has(p[2].attrs, pm_str)
          /\ p[2].values = p[1].values

\* The precision a quantize argument of ncks asks for is zero.
PrecisionIsZero(q) ==
    \/ q.t \in {"int", "float"} /\ q.v = 0
    \/ q.t = "str" /\ parse_quantize(q.v).err = "ok"
                   /\ parse_quantize(q.v).val.v = 0

\* C12: given a quantize, an integer or a '.N' string, ncks raises an
\* invalid-argument error exactly when the requested precision is zero, with no
\* command line built and no file touched; otherwise it goes on to run the tool.
C12_NcksQuantizeValidation ==
    (fpc # "idle" /\ fop.quantize # None)
    => /\ PrecisionIsZero(fop.quantize)
             => /\ fop.err = "ValueError" /\ fop.cmd = <<>>
                /\ fs = [f \in NcksPaths |-> IF f = "a.nc" THEN fop.orig ELSE Absent]
       /\ ~PrecisionIsZero(fop.quantize)
             => (fop.cmd # <<>> /\ fop.err \notin {"ValueError", "AttributeError"})

\* C13: the argument list of an accepted request is ncks -O -7 --no_abc, then
\* -L <dlevel> --baa=8 exactly when dlevel is given, then --ppc
\* default=<quantize> exactly when quantize is given, then the source and the
\* destination path.
C13_NcksCommandLine ==
    (fpc # "idle" /\ fop.cmd # <<>>)
    => LET n == Len(fop.cmd)
           l == IF fop.dlevel # None THEN 3 ELSE 0
           p == IF fop.quantize # None THEN 2 ELSE 0
       IN  /\ n = 4 + l + p + 2
           /\ SubSeq(fop.cmd, 1, 4) = <<"ncks", "-O", "-7", "--no_abc">>
           /\ fop.dlevel # None
                 => SubSeq(fop.cmd, 5, 7)
                       = <<"-L", ToString(fop.dlevel.v), "--baa=8">>
           /\ fop.quantize # None
                 => SubSeq(fop.cmd, 5 + l, 6 + l)
                       = <<"--ppc", "default=" \o Join(fop.quantize.v)>>
           /\ SubSeq(fop.cmd, n - 1, n) = <<fop.from_file, fop.to_file>>

\* C13 witness: quantize ".3" without a deflate level.
C13_Witness ==
    /\ fpc = "run"
    /\ fop.quantize = PyStr(<<".", "3">>) /\ fop.dlevel = None
    /\ fop.cmd = <<"ncks", "-O", "-7", "--no_abc", "--ppc", "default=.3",
                   "a.nc", "b.nc">>

\* The file ncks has produced, at its temporary or its final path.
Produced == IF fpc = "done" THEN fs[fop.final].ds ELSE fs[fop.to_file].ds

StatsDone == fpc \in {"written", "removed", "done"} /\ fop.append_stats

\* C14: after the statistics step every variable of the produced file carries
\* precision_MAXE, precision_RMSE and range, and the file carries precision =
\* the requested quantize and precision_MAXE / precision_RMSE = the maximum of
\* the values on the variables, 0 without variables.
C14_NcksRollUp ==
    StatsDone
    => /\ \A k \in DOMAIN Produced.variables :
             {"precision_MAXE", "precision_RMSE", "range"}
                 \subseteq DOMAIN Produced.variables[k].attrs
       /\ Produced.attrs["precision"] = fop.quantize
       /\ Produced.attrs["precision_MAXE"] =
             SetMax({Produced.variables[k].attrs["precision_MAXE"] :
                        k \in DOMAIN Produced.variables} \cup {0})
       /\ Produced.attrs["precision_RMSE"] =
             SetMax({Produced.variables[k].attrs["precision_RMSE"] :
                        k \in DOMAIN Produced.variables} \cup {0})

\* C14 witness: two variables with different non-zero RMSE; the file carries
\* the larger one, which is not their mean.
C14_Witness ==
    /\ StatsDone
    /\ \E k1, k2 \in DOMAIN Produced.variables :
          /\ Produced.variables[k1].attrs["precision_RMSE"] > 0
          /\ Produced.variables[k2].attrs["precision_RMSE"]
                > Produced.variables[k1].attrs["precision_RMSE"]
          /\ Produced.attrs["precision_RMSE"]
                = Produced.variables[k2].attrs["precision_RMSE"]

\* The dataset attributes a path added to those of the source.
AddedNames(f) == (DOMAIN fs[f].ds.attrs) \ (DOMAIN fs["a.nc"].ds.attrs)

\* C17: the file of the in-process path records the precision and the maximum
\* error under names the file of the external-tool path uses too, the precision
\* under the name the guard reads, and the guard answers the same on both.
C17_UniformProvenance ==
    (/\ guard.file = "both"
     /\ fop.append_stats
     /\ guard.quantize # None /\ guard.quantize.v > 0
     /\ guard.dlevel # None
     /\ fs["a.nc"].ds.keys # <<>>)
    => /\ dp_str \in AddedNames("b.nc") \cap AddedNames("c.nc")
       /\ AddedNames("c.nc") \subseteq AddedNames("b.nc")
       /\ guard.err = "ok" /\ guard.err_compress = "ok"
       /\ guard.ret = guard.ret_compress

\* The iteration that has just ended, as the loop found it: its source, its
\* target, and the guard's answer on the target.
LastSource == fop.source[fop.last]
LastTarget == target_of(fop.source[fop.last], fop.inplace)
LastAnswer ==
    update_is_required_compress(fop.prev[LastTarget].ds, fop.quantize, fop.dlevel)

\* C15: for a NetCDF source whose target exists as a NetCDF file, the target is
\* rewritten only if the guard answers True and overwrite is set; when the
\* guard answers False nothing is written and the loop goes on; when it answers
\* True without overwrite the run raises FileExistsError and the target stays.
C15_ExistingTarget ==
    (/\ fop.last > 0
     /\ is_netcdf(fop.prev[LastSource])
     /\ is_netcdf(fop.prev[LastTarget])
     /\ fop.err # "OSError")
    => /\ fs[LastTarget] # fop.prev[LastTarget]
             => (LastAnswer.ret /\ fop.overwrite)
       /\ ~LastAnswer.ret
             => /\ fs = fop.prev
                /\ fop.err = "ok"
                /\ fop.i = fop.last + 1
                /\ fpc = IF fop.last = Len(fop.source) THEN "finished" ELSE "loop"
       /\ (LastAnswer.ret /\ ~fop.overwrite)
             => (fpc = "raised" /\ fop.err = "FileExistsError" /\ fs = fop.prev)
       /\ (LastAnswer.ret /\ fop.overwrite)
             => (fs[LastTarget] # fop.prev[LastTarget] /\ fop.err = "ok")

\* C15 witness: the first target was already compressed and was passed over,
\* the second needed reprocessing, overwrite was set, and it was rewritten.
C15_Witness ==
    /\ fpc = "finished"
    /\ fop.last = 2 /\ fop.overwrite /\ ~fop.inplace
    /\ is_netcdf(fs["s1.nc"]) /\ is_netcdf(fs["s2.nc"])
    /\ is_netcdf(fop.prev["t1.nc"]) /\ is_netcdf(fop.prev["t2.nc"])
    /\ ~update_is_required_compress(fs["t1.nc"].ds, fop.quantize, fop.dlevel).ret
    /\ LastAnswer.ret
    /\ fs["t2.nc"] # fop.prev["t2.nc"]

\* C16: an I/O error in one file of the batch does not end the run while files
\* after it are left.
C16_FailureIsolation ==
    (fop.last > 0 /\ fop.err = "OSError" /\ fop.last < Len(fop.source))
    => fpc # "raised"

====
